---- MODULE Spec2Model ----
(***************************************************************************)
(* A model of django-prepop: the tree walker (walk.py), the fixture        *)
(* resolution engine and the load/unload lifecycle (core.py), and the      *)
(* batch functions run under transaction.atomic (batch.py).                *)
(***************************************************************************)
EXTENDS Integers, Sequences, FiniteSets, TLC

VARIABLES
    live,        \* the fixture instances of this process (the FIXTURES lists)
    self_data,   \* per instance: the attribute data, as given to __init__
    store,       \* the database as the running code sees it: a set of rows
    committed,   \* the database as committed (what survives a rollback)
    nextPk,      \* the next primary key the database hands out
    resolved,    \* per instance: the attribute _resolved_data, or Absent
    dep,         \* per instance: the attribute _unresolvable_dep
    runs,        \* per instance: how many times _resolve_data was entered
    events,      \* what the last call did, in order
    last,        \* the last call: what was called, on what, and how it ended
    pc,          \* where the batch function is: idle, or inside one of its loops
    batch,       \* the fixtures argument of the running batch function
    idx,         \* the loop index inside the batch function
    atomicStart, \* the rows committed when the atomic block was entered
    freshStart,  \* the instances without _resolved_data when it was entered
    loads,       \* the load() calls made in a row on one instance, and their create()s
    tree,        \* the value a decorated function is called on by itself
    visitor,     \* the function under @walks_on_trees in that call
    walked       \* what that call returned, or Absent before it

vars == <<live, self_data, store, committed, nextPk, resolved, dep, runs, events, last,
          pc, batch, idx, atomicStart, freshStart, loads, tree, visitor, walked>>

\* ------------------------------------------------------------------ bounds
MaxBatch == 2
MaxPk == 3
MaxRuns == 2
MaxNodes == 4

\* ------------------------------------------------------------------ values
\* Python values as tagged records; a dict keeps its entries in declaration order.
Scalar(n) == [t |-> "scalar", v |-> n]
List(es) == [t |-> "list", elems |-> es]
Dict(en) == [t |-> "dict", entries |-> en]
Entry(k, v) == [k |-> k, val |-> v]
Fixture(id) == [t |-> "fixture", id |-> id]
UnresolvableFixture(id) == [t |-> "unresolvable", fixture |-> id]
ModelObject(pk) == [t |-> "object", pk |-> pk]
None == [t |-> "none"]
Absent == [t |-> "absent"]

HasKey(d, k) == \E i \in 1..Len(d.entries) : d.entries[i].k = k
GetItem(d, k) == d.entries[CHOOSE i \in 1..Len(d.entries) : d.entries[i].k = k].val
SetItem(d, k, v) ==
    Dict([i \in 1..Len(d.entries) |->
            IF d.entries[i].k = k THEN Entry(k, v) ELSE d.entries[i]])

\* exceptions
NoExc == [type |-> "none", arg |-> "None"]
UnresolvedFixtureError(id) == [type |-> "UnresolvedFixtureError", arg |-> id]
FixtureProgrammingError == [type |-> "FixtureProgrammingError", arg |-> "None"]
ResolverError == [type |-> "ResolverError", arg |-> "None"]
MultipleObjectsReturned == [type |-> "MultipleObjectsReturned", arg |-> "None"]

\* ------------------------------------------------------- fixture classes
\* The fixture classes of the declaring modules.  resolve_self: "model" is
\* ModelFixture.resolve_self, "default" is AbstractStorageFixture.resolve_self,
\* "fixture" and "nested" are classes whose resolve_self hands back the
\* fixture itself (return self, return [self]).  resolvers: the register_field_resolver
\* methods, in dir() order.
Classes ==
    [Plain     |-> [identifying_fields |-> <<"name">>, resolve_self |-> "model",
                    resolvers |-> <<>>],
     Owned     |-> [identifying_fields |-> <<"owner">>, resolve_self |-> "model",
                    resolvers |-> <<>>],
     Sealed    |-> [identifying_fields |-> <<"name">>, resolve_self |-> "default",
                    resolvers |-> <<>>],
     Parsed    |-> [identifying_fields |-> <<"name">>, resolve_self |-> "model",
                    resolvers |-> <<[field |-> "name", fn |-> "shift"],
                                    [field |-> "extra", fn |-> "shift"]>>],
     Chained   |-> [identifying_fields |-> <<"name">>, resolve_self |-> "fixture",
                    resolvers |-> <<>>],
     Nesting   |-> [identifying_fields |-> <<"name">>, resolve_self |-> "nested",
                    resolvers |-> <<>>],
     Failing   |-> [identifying_fields |-> <<"name">>, resolve_self |-> "model",
                    resolvers |-> <<[field |-> "val", fn |-> "fail"]>>]]

\* The fixture declarations: class and data (AbstractStorageFixture.__init__).
Declarations ==
    [B |-> [cls |-> "Plain",
            data |-> Dict(<<Entry("name", Scalar(1))>>)],
     A |-> [cls |-> "Plain",
            data |-> Dict(<<Entry("name", Scalar(2)), Entry("dep", Fixture("B"))>>)],
     O |-> [cls |-> "Owned",
            data |-> Dict(<<Entry("owner", Fixture("B")), Entry("note", Scalar(3))>>)],
     D |-> [cls |-> "Sealed",
            data |-> Dict(<<Entry("name", Scalar(4))>>)],
     E |-> [cls |-> "Sealed",
            data |-> Dict(<<Entry("name", Scalar(5))>>)],
     N |-> [cls |-> "Plain",
            data |-> Dict(<<Entry("name", Scalar(6)),
                            Entry("x", List(<<Fixture("B"), Fixture("D")>>)),
                            Entry("y", Fixture("E"))>>)],
     S |-> [cls |-> "Parsed",
            data |-> Dict(<<Entry("name", Scalar(7)), Entry("dep", Fixture("B")),
                            Entry("also", Fixture("A"))>>)],
     X |-> [cls |-> "Chained",
            data |-> Dict(<<Entry("name", Scalar(8))>>)],
     P |-> [cls |-> "Plain",
            data |-> Dict(<<Entry("name", Scalar(9)),
                            Entry("dep", Fixture("X"))>>)],
     Y |-> [cls |-> "Nesting",
            data |-> Dict(<<Entry("name", Scalar(10))>>)],
     Q |-> [cls |-> "Plain",
            data |-> Dict(<<Entry("name", Scalar(11)), Entry("dep", Fixture("Y"))>>)],
     Z |-> [cls |-> "Failing",
            data |-> Dict(<<Entry("name", Scalar(12)), Entry("val", Scalar(13))>>)]]

FixtureIds == DOMAIN Declarations
ClassOf(f) == Classes[Declarations[f].cls]
DataOf(f) == Declarations[f].data

\* The FIXTURES lists a process may be started on.  D and E are referenced
\* from N's data and listed nowhere.
Modules ==
    {{"A", "B"}, {"O", "B"}, {"N", "B"}, {"S", "A", "B"},
     {"P", "X"}, {"Q", "Y"}, {"Z"}}

\* ------------------------------------------------------------ walk.py
\* The running state the code reads and writes, threaded through every call.
Event(e, f, r) == [e |-> e, f |-> f, r |-> r]
Log(env, e, f, r) == [env EXCEPT !.events = Append(@, Event(e, f, r))]

\* what a decorated function hands back to wrapper: None, a
\* TraversalTerminator, or an exception
Returned(env) == [env |-> env, kind |-> "return", value |-> None, exc |-> NoExc]
TraversalTerminator(env, v) ==
    [env |-> env, kind |-> "terminator", value |-> v, exc |-> NoExc]
Raised(env, e) == [env |-> env, kind |-> "raise", value |-> None, exc |-> e]

\* what a call hands back: the state after it, its value, its exception
Result(env, v) == [env |-> env, value |-> v, exc |-> NoExc]
Failure(env, e) == [env |-> env, value |-> None, exc |-> e]
Ok(r) == r.exc = NoExc

\* the rest of a function after a call that did not raise; an exception
\* passes through
Then(r, rest(_, _)) == IF r.exc = NoExc THEN rest(r.env, r.value) ELSE r

RECURSIVE wrapper(_, _, _)
RECURSIVE wrapper_list(_, _, _, _)
RECURSIVE wrapper_dict(_, _, _, _)
RECURSIVE call_fn(_, _, _)
RECURSIVE resolve_self(_, _)
RECURSIVE existing_object(_, _)
RECURSIVE resolved_data(_, _)
RECURSIVE attempt_data_resolution(_, _)
RECURSIVE resolve_data(_, _)
RECURSIVE apply_field_resolvers(_, _, _)

\* wrapper going on into the final value of a TraversalTerminator
wrapper_into_final(fn, env, value) ==
    LET after(out) ==
            IF out.kind = "raise" THEN Failure(out.env, out.exc)
            ELSE IF out.kind = "terminator" THEN wrapper(fn, out.env, out.value)
            ELSE IF value.t = "list"
                 THEN wrapper_list(fn, out.env, value.elems, <<>>)
            ELSE IF value.t = "dict"
                 THEN wrapper_dict(fn, out.env, value.entries, <<>>)
            ELSE Result(out.env, value)
    IN after(call_fn(fn, env, value))

\* walks_on_trees(fn): wrapper(value), with fn named by a string
wrapper(fn, env, value) ==
    LET after(out) ==
            IF out.kind = "raise" THEN Failure(out.env, out.exc)
            ELSE IF out.kind = "terminator" THEN Result(out.env, out.value)
            ELSE IF value.t = "list"
                 THEN wrapper_list(fn, out.env, value.elems, <<>>)
            ELSE IF value.t = "dict"
                 THEN wrapper_dict(fn, out.env, value.entries, <<>>)
            ELSE Result(out.env, value)
    IN after(call_fn(fn, env, value))

\* [wrapper(v) for v in value]
wrapper_list(fn, env, rest, done) ==
    IF rest = <<>> THEN Result(env, List(done))
    ELSE Then(wrapper(fn, env, Head(rest)),
              LAMBDA e, v : wrapper_list(fn, e, Tail(rest), Append(done, v)))

\* wrapper_dict walking the entries last to first
RECURSIVE wrapper_dict_reversed(_, _, _, _)
wrapper_dict_reversed(fn, env, rest, done) ==
    IF rest = <<>> THEN Result(env, Dict(done))
    ELSE Then(wrapper(fn, env, rest[Len(rest)].val),
              LAMBDA e, v : wrapper_dict_reversed(
                                fn, e, SubSeq(rest, 1, Len(rest) - 1),
                                <<Entry(rest[Len(rest)].k, v)>> \o done))

\* {k: wrapper(v) for k, v in value.items()}
wrapper_dict(fn, env, rest, done) ==
    IF rest = <<>> THEN Result(env, Dict(done))
    ELSE Then(wrapper(fn, env, Head(rest).val),
              LAMBDA e, v : wrapper_dict(fn, e, Tail(rest),
                                         Append(done, Entry(Head(rest).k, v))))

\* ------------------------------------------------------------ core.py
\* _resolve_fixtures_in_data, the function under @walks_on_trees
resolve_fixtures_in_data_fn(env, value) ==
    LET after(r) ==
            IF r.exc # NoExc THEN Raised(r.env, r.exc)
            ELSE IF r.value.t = "fixture" THEN Raised(r.env, FixtureProgrammingError)
            ELSE TraversalTerminator(r.env, r.value)
    IN IF value.t = "fixture" THEN after(resolve_self(env, value.id))
       ELSE Returned(env)

\* raise_if_unresolved, the function under @walks_on_trees
raise_if_unresolved_fn(env, value) ==
    IF value.t = "unresolvable" THEN Raised(env, UnresolvedFixtureError(value.fixture))
    ELSE IF value.t = "fixture" THEN Raised(env, FixtureProgrammingError)
    ELSE Returned(env)

\* Other functions under @walks_on_trees: "keep" returns None everywhere;
\* "cut_lists" ends the traversal at every list, "swap_zero" at every 0 and
\* "cut_both" at every list and every dict, each with a final value that
\* itself holds lists, dicts or scalars.
Visitors == {"keep", "cut_lists", "swap_zero", "cut_both"}

\* whether the function returns a TraversalTerminator on value
Terminates(fn, value) ==
    IF fn = "cut_lists" THEN value.t = "list"
    ELSE IF fn = "swap_zero" THEN value = Scalar(0)
    ELSE IF fn = "cut_both" THEN value.t \in {"list", "dict"}
    ELSE FALSE

\* the final value of that TraversalTerminator
Final(fn, value) ==
    IF fn = "cut_lists" THEN Dict(<<Entry("cut", Scalar(0))>>)
    ELSE IF fn = "swap_zero" THEN List(<<Scalar(1), Dict(<<>>)>>)
    ELSE IF value.t = "list" THEN Dict(<<Entry("was", List(<<Scalar(0)>>))>>)
    ELSE Scalar(1)

\* fn(value) for these functions; every call is recorded
visit(fn, env, value) ==
    IF Terminates(fn, value)
    THEN TraversalTerminator(Log(env, "visit", fn, value), Final(fn, value))
    ELSE Returned(Log(env, "visit", fn, value))

call_fn(fn, env, value) ==
    IF fn = "_resolve_fixtures_in_data" THEN resolve_fixtures_in_data_fn(env, value)
    ELSE IF fn = "raise_if_unresolved" THEN raise_if_unresolved_fn(env, value)
    ELSE visit(fn, env, value)

resolve_fixtures_in_data(env, value) == wrapper("_resolve_fixtures_in_data", env, value)

\* find_unresolvable_dependency without its try/except
find_unresolvable_dependency_uncaught(env, data) ==
    LET after(r) ==
            IF r.exc = NoExc THEN Result(env, "None") ELSE Failure(env, r.exc)
    IN after(wrapper("raise_if_unresolved", env, data))

\* find_unresolvable_dependency: the first unresolvable fixture ("None" when
\* there is none); a FixtureProgrammingError is not caught
find_unresolvable_dependency(env, data) ==
    LET after(r) ==
            IF r.exc = NoExc THEN Result(env, "None")
            ELSE IF r.exc.type = "UnresolvedFixtureError" THEN Result(env, r.exc.arg)
            ELSE Failure(env, r.exc)
    IN after(wrapper("raise_if_unresolved", env, data))

\* a registered field resolver, applied to a resolved value
FieldResolver(fn, env, value) ==
    IF fn = "fail" THEN Failure(env, ResolverError)
    ELSE IF value.t = "scalar" THEN Result(env, Scalar(value.v + 100))
    ELSE Result(env, value)

\* _get_field_resolvers
get_field_resolvers(f) == ClassOf(f).resolvers

\* the loop over the field resolvers writing into self.data as well, as it
\* would were _resolved_data the dict of self.data and no copy
apply_field_resolvers_in_place(env, f, rest) ==
    IF rest = <<>> THEN Result(env, None)
    ELSE IF ~HasKey(env.resolved[f], Head(rest).field)
    THEN apply_field_resolvers(env, f, Tail(rest))
    ELSE Then(FieldResolver(Head(rest).fn,
                            Log(env, "field_resolver", f, Head(rest).field),
                            GetItem(env.resolved[f], Head(rest).field)),
              LAMBDA e, v : apply_field_resolvers(
                                [e EXCEPT !.resolved[f] = SetItem(@, Head(rest).field, v),
                                          !.data[f] = SetItem(@, Head(rest).field, v)],
                                f, Tail(rest)))

\* the loop of _resolve_data over the field resolvers
apply_field_resolvers(env, f, rest) ==
    IF rest = <<>> THEN Result(env, None)
    ELSE IF ~HasKey(env.resolved[f], Head(rest).field)
    THEN apply_field_resolvers(env, f, Tail(rest))
    ELSE Then(FieldResolver(Head(rest).fn,
                            Log(env, "field_resolver", f, Head(rest).field),
                            GetItem(env.resolved[f], Head(rest).field)),
              LAMBDA e, v : apply_field_resolvers(
                                [e EXCEPT !.resolved[f] = SetItem(@, Head(rest).field, v)],
                                f, Tail(rest)))

\* _resolve_data running the field resolvers whatever the dependencies
resolve_data_ungated(env, f) ==
    Then(resolve_fixtures_in_data(
             Log([env EXCEPT !.runs[f] = @ + 1], "resolve", f, "None"), env.data[f]),
         LAMBDA e1, data :
             Then(find_unresolvable_dependency([e1 EXCEPT !.resolved[f] = data], data),
                  LAMBDA e2, d :
                      apply_field_resolvers([e2 EXCEPT !.dep[f] = d], f,
                                            get_field_resolvers(f))))

\* _resolve_data
resolve_data(env, f) ==
    Then(resolve_fixtures_in_data(
             Log([env EXCEPT !.runs[f] = @ + 1], "resolve", f, "None"), env.data[f]),
         LAMBDA e1, data :
             Then(find_unresolvable_dependency([e1 EXCEPT !.resolved[f] = data], data),
                  LAMBDA e2, d :
                      IF d # "None" THEN Result([e2 EXCEPT !.dep[f] = d], None)
                      ELSE apply_field_resolvers([e2 EXCEPT !.dep[f] = d], f,
                                                 get_field_resolvers(f))))

\* attempt_data_resolution
attempt_data_resolution(env, f) ==
    IF env.resolved[f] = Absent THEN resolve_data(env, f) ELSE Result(env, None)

\* the property resolved_data
resolved_data(env, f) ==
    Then(attempt_data_resolution(env, f), LAMBDA e, v : Result(e, e.resolved[f]))

\* resolvable answering without the hasattr test
resolvable_unguarded(env, f) == Result(env, env.dep[f] = "None")

\* the property resolvable
resolvable(env, f) ==
    IF env.dep[f] = "unset" THEN Failure(env, FixtureProgrammingError)
    ELSE Result(env, env.dep[f] = "None")

\* the rows model.objects.get(**model_kw) matches; each class has its own model
Rows(env, f, model_kw) ==
    {row \in env.store :
        /\ row.model = Declarations[f].cls
        /\ \A i \in 1..Len(model_kw.entries) :
              /\ HasKey(row.fields, model_kw.entries[i].k)
              /\ GetItem(row.fields, model_kw.entries[i].k) = model_kw.entries[i].val}

\* self.model.objects.get(**model_kw), DoesNotExist caught
objects_get(env, rows) ==
    IF rows = {} THEN Result(env, None)
    ELSE IF Cardinality(rows) > 1 THEN Failure(env, MultipleObjectsReturned)
    ELSE Result(env, ModelObject((CHOOSE row \in rows : TRUE).pk))

\* {k: self.resolved_data[k] for k in self.identifying_fields}
IdentifyingKw(f, data) ==
    Dict([i \in 1..Len(ClassOf(f).identifying_fields) |->
            Entry(ClassOf(f).identifying_fields[i],
                  GetItem(data, ClassOf(f).identifying_fields[i]))])

\* ModelFixture.existing_object
existing_object(env, f) ==
    Then(resolved_data(env, f),
         LAMBDA e1, data :
             Then(find_unresolvable_dependency(e1, IdentifyingKw(f, data)),
                  LAMBDA e2, u :
                      IF u # "None" THEN Result(e2, None)
                      ELSE objects_get(e2, Rows(e2, f, IdentifyingKw(f, data)))))

\* resolve_self, by class: ModelFixture's, AbstractStorageFixture's, and the
\* two that hand back the fixture
resolve_self(env, f) ==
    IF ClassOf(f).resolve_self = "default" THEN Result(env, UnresolvableFixture(f))
    ELSE IF ClassOf(f).resolve_self = "fixture" THEN Result(env, Fixture(f))
    ELSE IF ClassOf(f).resolve_self = "nested" THEN Result(env, List(<<Fixture(f)>>))
    ELSE Then(existing_object(env, f),
              LAMBDA e, obj :
                  IF obj = None THEN Result(e, UnresolvableFixture(f))
                  ELSE Result(e, obj))

\* ModelFixture.exists
exists(env, f) ==
    Then(existing_object(env, f),
         LAMBDA e, obj :
             Result(Log(e, "exists", f, IF obj # None THEN "True" ELSE "False"),
                    obj # None))

\* ModelFixture.create: one row with the resolved data and a fresh key ("by"
\* records which fixture wrote the row; no code reads it)
create(env, f) ==
    Then(resolved_data(env, f),
         LAMBDA e, data :
             Result(Log([e EXCEPT
                           !.store = @ \cup {[pk |-> e.nextPk,
                                              model |-> Declarations[f].cls,
                                              fields |-> data, by |-> f]},
                           !.nextPk = @ + 1],
                        "create", f, "None"), None))

\* ModelFixture.delete
delete(env, f) ==
    Then(existing_object(env, f),
         LAMBDA e, obj :
             Result(Log([e EXCEPT !.store = {row \in @ : row.pk # obj.pk}],
                        "delete", f, "None"), None))

\* load() without the exists() test
load_without_exists(env, f) ==
    Then(attempt_data_resolution(env, f),
         LAMBDA e1, v1 :
             Then(resolvable(e1, f),
                  LAMBDA e3, ok :
                      IF ~ok THEN Failure(e3, UnresolvedFixtureError(e3.dep[f]))
                      ELSE create(e3, f)))

\* load() without the resolvable test
load_without_resolvable(env, f) ==
    Then(attempt_data_resolution(env, f),
         LAMBDA e1, v1 :
             Then(exists(e1, f),
                  LAMBDA e2, found :
                      IF found THEN Result(e2, None) ELSE create(e2, f)))

\* AbstractStorageFixture.load
load(env, f) ==
    Then(attempt_data_resolution(env, f),
         LAMBDA e1, v1 :
             Then(exists(e1, f),
                  LAMBDA e2, found :
                      IF found THEN Result(e2, None)
                      ELSE Then(resolvable(e2, f),
                                LAMBDA e3, ok :
                                    IF ~ok
                                    THEN Failure(e3, UnresolvedFixtureError(e3.dep[f]))
                                    ELSE create(e3, f))))

\* AbstractStorageFixture.unload
unload(env, f) ==
    Then(attempt_data_resolution(env, f),
         LAMBDA e1, v1 :
             Then(exists(e1, f),
                  LAMBDA e2, found :
                      IF ~found THEN Result(e2, None)
                      ELSE delete(e2, f)))

\* -------------------------------------------------------------- the state
Env == [store |-> store, nextPk |-> nextPk, data |-> self_data, resolved |-> resolved,
        dep |-> dep, runs |-> runs, events |-> <<>>]

\* how many create() calls a call made
Creates(evs) == Cardinality({i \in 1..Len(evs) : evs[i].e = "create"})

\* whether a call found no row of the fixture
FoundAbsent(f, evs) == \E i \in 1..Len(evs) : evs[i] = Event("exists", f, "False")

NoLoads == [f |-> "None", n |-> 0, creates |-> 0, absent |-> FALSE]

\* load() returned on f: one more in a row on that instance, or the first
LoadsAfter(f, r) ==
    IF r.exc # NoExc THEN NoLoads
    ELSE IF loads.f = f /\ loads.n = 1
    THEN [f |-> f, n |-> 2, creates |-> loads.creates + Creates(r.env.events),
          absent |-> loads.absent]
    ELSE [f |-> f, n |-> 1, creates |-> Creates(r.env.events),
          absent |-> FoundAbsent(f, r.env.events)]

Call(op, f, exc, retcode) == [op |-> op, f |-> f, exc |-> exc, retcode |-> retcode]
NoCall == Call("none", "None", NoExc, -1)

\* the counters stay within the bounds
WithinBounds(env) ==
    /\ env.nextPk <= MaxPk + 1
    /\ \A f \in FixtureIds : env.runs[f] <= MaxRuns

\* the instance attributes and the database after a call
Becomes(env) ==
    /\ WithinBounds(env)
    /\ store' = env.store
    /\ nextPk' = env.nextPk
    /\ self_data' = env.data
    /\ resolved' = env.resolved
    /\ dep' = env.dep
    /\ runs' = env.runs
    /\ events' = env.events

\* a call on a fixture or a batch; the walker's own call is apart
Ran(call) ==
    /\ last' = call
    /\ UNCHANGED <<tree, visitor, walked>>

\* the fixtures argument of a batch function
Batches == UNION {[1..n -> live] : n \in 0..MaxBatch}

Init ==
    /\ live \in Modules
    /\ self_data = [f \in FixtureIds |-> DataOf(f)]
    /\ store = {}
    /\ committed = {}
    /\ nextPk = 1
    /\ resolved = [f \in FixtureIds |-> Absent]
    /\ dep = [f \in FixtureIds |-> "unset"]
    /\ runs = [f \in FixtureIds |-> 0]
    /\ events = <<>>
    /\ last = NoCall
    /\ pc = "idle"
    /\ batch = <<>>
    /\ idx = 0
    /\ atomicStart = {}
    /\ freshStart = {}
    /\ loads = NoLoads
    /\ tree = None
    /\ visitor = "None"
    /\ walked = Absent

\* ---------------------------------------- calls on one fixture (autocommit)
Outside ==
    /\ pc = "idle"
    /\ batch' = <<>>
    /\ idx' = 0
    /\ atomicStart' = {}
    /\ freshStart' = {}
    /\ UNCHANGED <<live, pc>>

\* a call outside any atomic block: what it wrote is committed at once
Called(op, f, r) ==
    /\ Becomes(r.env)
    /\ committed' = r.env.store
    /\ Ran(Call(op, f, r.exc, -1))
    /\ loads' = IF op = "load" THEN LoadsAfter(f, r) ELSE NoLoads

\* fixture.load()
Load(f) ==
    /\ Outside
    /\ Called("load", f, load(Env, f))

\* fixture.unload()
Unload(f) ==
    /\ Outside
    /\ Called("unload", f, unload(Env, f))

\* fixture.resolved_data
ResolvedData(f) ==
    /\ Outside
    /\ Called("resolved_data", f, resolved_data(Env, f))

\* fixture.attempt_data_resolution()
AttemptDataResolution(f) ==
    /\ Outside
    /\ Called("attempt_data_resolution", f, attempt_data_resolution(Env, f))

\* fixture.resolvable; the boolean it returns is recorded
Resolvable(f) ==
    /\ Outside
    /\ LET returned(r) ==
               IF Ok(r)
               THEN Called("resolvable", f,
                           Result(Log(r.env, "resolvable", f,
                                      IF r.value THEN "True" ELSE "False"), r.value))
               ELSE Called("resolvable", f, r)
       IN returned(resolvable(Env, f))

\* a row removed by hand, outside the fixture API (the scenario of exists())
RemovedManually(row) ==
    /\ Outside
    /\ row \in store
    /\ store' = store \ {row}
    /\ committed' = store \ {row}
    /\ events' = <<>>
    /\ Ran(Call("removed_manually", row.by, NoExc, -1))
    /\ loads' = NoLoads
    /\ UNCHANGED <<nextPk, self_data, resolved, dep, runs>>

\* a new run of the command: the fixture modules are imported afresh, the
\* database stays
NewProcess ==
    /\ \E f \in live : runs[f] > 0
    /\ self_data' = [f \in FixtureIds |-> DataOf(f)]
    /\ resolved' = [f \in FixtureIds |-> Absent]
    /\ dep' = [f \in FixtureIds |-> "unset"]
    /\ runs' = [f \in FixtureIds |-> 0]
    /\ events' = <<>>
    /\ Ran(Call("new_process", "None", NoExc, -1))
    /\ loads' = NoLoads
    /\ Outside
    /\ UNCHANGED <<store, committed, nextPk>>

\* ---------------------------------------------------------------- batch.py
\* transaction.atomic(): entering it
EnterAtomic(b, where) ==
    /\ pc = "idle"
    /\ pc' = where
    /\ batch' = b
    /\ idx' = 1
    /\ atomicStart' = committed
    /\ freshStart' = {f \in live : resolved[f] = Absent}
    /\ loads' = NoLoads
    /\ events' = <<>>
    /\ UNCHANGED <<live, self_data, store, committed, nextPk, resolved, dep, runs>>

\* transaction.atomic(): the function returned, the block commits
AtomicReturn(env, call) ==
    /\ Becomes(env)
    /\ committed' = env.store
    /\ pc' = "idle"
    /\ Ran(call)
    /\ UNCHANGED <<live, batch, idx, atomicStart, freshStart, loads>>

\* the block committing although an exception left it
AtomicRaise_committing(env, call) ==
    /\ Becomes(env)
    /\ committed' = env.store
    /\ pc' = "idle"
    /\ Ran(call)
    /\ UNCHANGED <<live, batch, idx, atomicStart, freshStart, loads>>

\* transaction.atomic(): an exception left the block, the block rolls back
AtomicRaise(env, call) ==
    /\ Becomes([env EXCEPT !.store = atomicStart])
    /\ committed' = atomicStart
    /\ pc' = "idle"
    /\ Ran(call)
    /\ UNCHANGED <<live, batch, idx, atomicStart, freshStart, loads>>

\* the loop goes on to the next fixture
Continue(env, call) ==
    /\ Becomes(env)
    /\ idx' = idx + 1
    /\ Ran(call)
    /\ UNCHANGED <<live, committed, pc, batch, atomicStart, freshStart, loads>>

\* load_fixtures reading every fixture's resolved_data before its loop, as
\* unload_fixtures does
RECURSIVE pre_resolve_all(_, _)
pre_resolve_all(env, fs) ==
    IF fs = <<>> THEN env
    ELSE pre_resolve_all(resolved_data(env, Head(fs)).env, Tail(fs))

LoadFixtures_preresolving(b) ==
    /\ pc = "idle"
    /\ pc' = "load"
    /\ batch' = b
    /\ idx' = 1
    /\ atomicStart' = committed
    /\ freshStart' = {f \in live : resolved[f] = Absent}
    /\ loads' = NoLoads
    /\ Becomes([pre_resolve_all(Env, [i \in 1..Len(b) |-> b[i]]) EXCEPT !.events = <<>>])
    /\ Ran(Call("load_fixtures:enter", "None", NoExc, -1))
    /\ UNCHANGED <<live, committed>>

\* load_fixtures(fixtures): the call
LoadFixtures(b) ==
    /\ EnterAtomic(b, "load")
    /\ Ran(Call("load_fixtures:enter", "None", NoExc, -1))

\* the loop of load_fixtures going on after an UnresolvedFixtureError
LoadFixturesStep_continuing ==
    /\ pc = "load"
    /\ idx <= Len(batch)
    /\ LET loaded(f, r) ==
               IF Ok(r) \/ r.exc.type = "UnresolvedFixtureError"
               THEN Continue(r.env, Call("load_fixtures:load", f, NoExc, -1))
               ELSE AtomicRaise(r.env, Call("load_fixtures", f, r.exc, -1))
       IN loaded(batch[idx], load(Env, batch[idx]))

\* load_fixtures: one turn of its loop
LoadFixturesStep ==
    /\ pc = "load"
    /\ idx <= Len(batch)
    /\ LET loaded(f, r) ==
               IF Ok(r) THEN Continue(r.env, Call("load_fixtures:load", f, NoExc, -1))
               ELSE IF r.exc.type = "UnresolvedFixtureError"
               THEN AtomicReturn(r.env, Call("load_fixtures", f, r.exc, 1))
               ELSE AtomicRaise(r.env, Call("load_fixtures", f, r.exc, -1))
       IN loaded(batch[idx], load(Env, batch[idx]))

\* load_fixtures: return 0
LoadFixturesReturn ==
    /\ pc = "load"
    /\ idx > Len(batch)
    /\ AtomicReturn(Env, Call("load_fixtures", "None", NoExc, 0))

\* unload_fixtures(fixtures): the call
UnloadFixtures(b) ==
    /\ EnterAtomic(b, "unload_resolve")
    /\ Ran(Call("unload_fixtures:enter", "None", NoExc, -1))

\* the first loop of unload_fixtures doing nothing
pre_resolve_skipped(env, f) == Result(env, None)

\* unload_fixtures: fixture.resolved_data in the first loop
pre_resolve(env, f) == resolved_data(env, f)

\* unload_fixtures: one turn of its first loop
UnloadFixturesResolve ==
    /\ pc = "unload_resolve"
    /\ idx <= Len(batch)
    /\ LET accessed(f, r) ==
               IF Ok(r)
               THEN Continue(r.env, Call("unload_fixtures:resolve", f, NoExc, -1))
               ELSE AtomicRaise(r.env, Call("unload_fixtures", f, r.exc, -1))
       IN accessed(batch[idx], pre_resolve(Env, batch[idx]))

\* unload_fixtures: the first loop is over, the second begins
UnloadFixturesResolved ==
    /\ pc = "unload_resolve"
    /\ idx > Len(batch)
    /\ pc' = "unload"
    /\ idx' = 1
    /\ events' = <<>>
    /\ Ran(Call("unload_fixtures:resolved", "None", NoExc, -1))
    /\ UNCHANGED <<live, self_data, store, committed, nextPk, resolved, dep, runs, batch,
                   atomicStart, freshStart, loads>>

\* the second loop of unload_fixtures giving up, as load_fixtures does, at a
\* fixture with an unresolvable dependency
UnloadFixturesStep_aborting ==
    /\ pc = "unload"
    /\ idx <= Len(batch)
    /\ LET unloaded(f, r) ==
               IF dep[f] \notin {"unset", "None"}
               THEN AtomicReturn(Env, Call("unload_fixtures", f, NoExc, 1))
               ELSE IF Ok(r)
               THEN Continue(r.env, Call("unload_fixtures:unload", f, NoExc, -1))
               ELSE AtomicRaise(r.env, Call("unload_fixtures", f, r.exc, -1))
       IN unloaded(batch[idx], unload(Env, batch[idx]))

\* unload_fixtures: one turn of its second loop
UnloadFixturesStep ==
    /\ pc = "unload"
    /\ idx <= Len(batch)
    /\ LET unloaded(f, r) ==
               IF Ok(r)
               THEN Continue(r.env, Call("unload_fixtures:unload", f, NoExc, -1))
               ELSE AtomicRaise(r.env, Call("unload_fixtures", f, r.exc, -1))
       IN unloaded(batch[idx], unload(Env, batch[idx]))

\* unload_fixtures: return 0
UnloadFixturesReturn ==
    /\ pc = "unload"
    /\ idx > Len(batch)
    /\ AtomicReturn(Env, Call("unload_fixtures", "None", NoExc, 0))

Next ==
    \/ \E f \in live : Load(f)
    \/ \E f \in live : Unload(f)
    \/ \E f \in live : ResolvedData(f)
    \/ \E f \in live : AttemptDataResolution(f)
    \/ \E f \in live : Resolvable(f)
    \/ \E row \in store : RemovedManually(row)
    \/ NewProcess
    \/ \E b \in Batches : LoadFixtures(b)
    \/ LoadFixturesStep
    \/ LoadFixturesReturn
    \/ \E b \in Batches : UnloadFixtures(b)
    \/ UnloadFixturesResolve
    \/ UnloadFixturesResolved
    \/ UnloadFixturesStep
    \/ UnloadFixturesReturn

Spec == Init /\ [][Next]_vars

\* ------------------------------------------------- the walker by itself
\* The nested values of lists, dicts and scalars with at most MaxNodes nodes.
Keys == <<"a", "b", "c", "d", "e", "f">>

RECURSIVE TreesOfSize(_)
RECURSIVE Forests(_)
TreesOfSize(n) ==
    IF n = 1 THEN {Scalar(0), Scalar(1), List(<<>>), Dict(<<>>)}
    ELSE {List(es) : es \in Forests(n - 1)}
         \cup {Dict([i \in 1..Len(es) |-> Entry(Keys[i], es[i])]) : es \in Forests(n - 1)}
Forests(m) ==
    IF m = 0 THEN {<<>>}
    ELSE UNION {{<<t>> \o rest : t \in TreesOfSize(k), rest \in Forests(m - k)} :
                   k \in 1..m}

Trees == UNION {TreesOfSize(n) : n \in 1..MaxNodes}

WalkInit ==
    /\ tree \in Trees
    /\ visitor \in Visitors
    /\ walked = Absent
    /\ live = {}
    /\ self_data = [f \in FixtureIds |-> DataOf(f)]
    /\ store = {}
    /\ committed = {}
    /\ nextPk = 1
    /\ resolved = [f \in FixtureIds |-> Absent]
    /\ dep = [f \in FixtureIds |-> "unset"]
    /\ runs = [f \in FixtureIds |-> 0]
    /\ events = <<>>
    /\ last = NoCall
    /\ pc = "idle"
    /\ batch = <<>>
    /\ idx = 0
    /\ atomicStart = {}
    /\ freshStart = {}
    /\ loads = NoLoads

\* the decorated function called on the value
Walk ==
    /\ walked = Absent
    /\ LET returned(r) ==
               /\ walked' = r.value
               /\ events' = r.env.events
       IN returned(wrapper(visitor, Env, tree))
    /\ UNCHANGED <<live, self_data, store, committed, nextPk, resolved, dep, runs, last,
                   pc, batch, idx, atomicStart, freshStart, loads, tree, visitor>>

WalkNext == Walk

WalkSpec == WalkInit /\ [][WalkNext]_vars

\* ------------------------------------------------------------ properties
\* the nodes of a value that are neither list nor dict, left to right
RECURSIVE Leaves(_)
RECURSIVE LeavesOfAll(_)
Leaves(v) ==
    IF v.t = "list" THEN LeavesOfAll(v.elems)
    ELSE IF v.t = "dict"
    THEN LeavesOfAll([i \in 1..Len(v.entries) |-> v.entries[i].val])
    ELSE <<v>>
LeavesOfAll(vs) == IF vs = <<>> THEN <<>> ELSE Leaves(Head(vs)) \o LeavesOfAll(Tail(vs))

IsMarker(v) == v.t = "unresolvable"
Markers(v) == SelectSeq(Leaves(v), IsMarker)
FirstMarker(v) == IF Markers(v) = <<>> THEN "None" ELSE Markers(v)[1].fixture
HoldsFixture(v) == \E i \in 1..Len(Leaves(v)) : Leaves(v)[i].t = "fixture"
References(a, b) == \E i \in 1..Len(Leaves(DataOf(a))) : Leaves(DataOf(a))[i] = Fixture(b)
InBatch(f) == \E i \in 1..Len(batch) : batch[i] = f
Happened(e, f, r) == \E i \in 1..Len(events) : events[i] = Event(e, f, r)

\* C1: when load_fixtures meets a fixture that is absent and unresolvable, it
\* reports failure and none of the rows it created for the earlier fixtures of
\* the batch is committed.
C1_AbortOnLoadFailure ==
    (last.op = "load_fixtures" /\ last.exc.type = "UnresolvedFixtureError")
        => (last.retcode # 0 /\ committed \subseteq atomicStart)

\* C2: unload() of a fixture whose identifying fields resolve, one of whose
\* other fields does not, and whose row as create() wrote it is in the store,
\* deletes the row: no row written for the fixture is left.
C2_TolerantUnload ==
    \A f \in live :
        ( /\ last.op \in {"unload", "unload_fixtures:unload"}
          /\ last.f = f
          /\ last.exc = NoExc
          /\ dep[f] \notin {"unset", "None"}
          /\ Markers(IdentifyingKw(f, resolved[f])) = <<>> )
            => ~\E row \in store : row.by = f

\* C3: inside unload_fixtures no row is deleted before data resolution has
\* been attempted on every fixture of the batch.
C3_PreResolutionBeforeDelete ==
    ( /\ pc \in {"unload_resolve", "unload"}
      /\ \/ store # atomicStart
         \/ \E i \in 1..Len(events) : events[i].e = "delete" )
        => /\ pc = "unload"
           /\ \A i \in 1..Len(batch) : runs[batch[i]] >= 1

\* a batch of two different fixtures, the first already deleted, the second
\* resolved and not yet unloaded
C3_Witness ==
    /\ pc = "unload"
    /\ Len(batch) = 2
    /\ batch[1] # batch[2]
    /\ idx = 2
    /\ Happened("delete", batch[1], "None")
    /\ store # atomicStart

\* C4: when a's data references b, the rows of both are in the store (a's row
\* holding b's), and both are in the batch, unload_fixtures ends with both
\* rows gone.
C4_BatchUnloadEndToEnd ==
    (last.op = "unload_fixtures" /\ last.retcode = 0)
        => \A a, b \in live : \A ra, rb \in atomicStart :
               ( /\ InBatch(a) /\ InBatch(b) /\ References(a, b)
                 /\ ra.by = a /\ rb.by = b
                 /\ \E i \in 1..Len(Leaves(ra.fields)) :
                        Leaves(ra.fields)[i] = ModelObject(rb.pk) )
                   => (ra \notin store /\ rb \notin store)

\* C5: whatever is called on an instance, also after a call that raised, its
\* data resolution runs at most once.
C5_AtMostOnceResolution == \A f \in live : runs[f] <= 1

C7_NoRawFixture == \A f \in live : resolved[f] # Absent => ~HoldsFixture(resolved[f])

\* C8: an UnresolvedFixtureError comes out of load() only (inside
\* load_fixtures it is the one caught), and only when exists() was false and
\* the fixture unresolvable; it carries the recorded dependency.  No other
\* call raises it.
C8_UnresolvedOnlyFromLoad ==
    last.exc.type = "UnresolvedFixtureError"
        => /\ last.op \in {"load", "load_fixtures"}
           /\ events[Len(events)] = Event("exists", last.f, "False")
           /\ dep[last.f] \notin {"unset", "None"}
           /\ last.exc.arg = dep[last.f]

\* resolved_data returned on a fixture with an unresolvable dependency
C8_Witness ==
    /\ last.op \in {"resolved_data", "unload", "unload_fixtures:resolve"}
    /\ last.exc = NoExc
    /\ dep[last.f] \notin {"unset", "None"}
    /\ Happened("resolve", last.f, "None")

\* C9: the recorded dependency is the fixture of the first marker of the
\* resolved data, dict entries in declaration order and list elements in index
\* order, and None exactly when the resolved data holds no marker.
C9_FirstMatchDepthFirst ==
    \A f \in live : dep[f] # "unset" => dep[f] = FirstMarker(resolved[f])

\* {"x": [ok_ref, bad_ref], "y": bad_ref2} resolved: bad_ref is recorded
C9_Witness ==
    /\ "N" \in live
    /\ resolved["N"] # Absent
    /\ Len(Markers(resolved["N"])) = 2
    /\ Markers(resolved["N"])[2].fixture = "E"
    /\ dep["N"] = "D"

\* C10: create() is called only right after exists() returned False, on a
\* fixture whose resolution was attempted and left no marker; delete() only
\* right after exists() returned True.
C10_CreateDeletePreconditions ==
    \A i \in 1..Len(events) :
        /\ events[i].e = "create"
             => /\ i > 1
                /\ events[i - 1] = Event("exists", events[i].f, "False")
                /\ resolved[events[i].f] # Absent
                /\ dep[events[i].f] = "None"
                /\ Markers(resolved[events[i].f]) = <<>>
        /\ events[i].e = "delete"
             => /\ i > 1
                /\ events[i - 1] = Event("exists", events[i].f, "True")

\* a call that created a row
C10_Witness == \E i \in 1..Len(events) : events[i].e = "create"

\* the identifying fields of f are plain values in its declaration
IdentifiedByValue(f) == ~HoldsFixture(IdentifyingKw(f, DataOf(f)))

\* a row create() wrote for f is in the store
RecordPresent(f) == \E row \in store : row.by = f

\* C11: load() on a fixture whose record is in the store (also one with an
\* unresolvable dependency outside its identifying fields) raises nothing
\* (an exception of a field resolver's own aside), calls neither create() nor
\* delete() and leaves the store as it was.
C11_LoadOfExistingIsNoOp ==
    [][\A f \in live :
          ( /\ last'.op \in {"load", "load_fixtures:load", "load_fixtures"}
            /\ last'.f = f
            /\ last'.exc # ResolverError
            /\ IdentifiedByValue(f)
            /\ RecordPresent(f) )
              => /\ last'.exc = NoExc
                 /\ store' = store
                 /\ \A i \in 1..Len(events') : events'[i].e \notin {"create", "delete"}]_vars

\* how many times the last call ran the resolver of a field of f
ResolverCalls(f, field) ==
    Cardinality({i \in 1..Len(events) : events[i] = Event("field_resolver", f, field)})

\* C12: a resolution that leaves a marker runs no field resolver and keeps
\* the data with the marker; a resolution that leaves none runs the resolver
\* of every field present in the data exactly once, on the field's resolved
\* value, and the resolver of no absent field.
C12_FieldResolversGated ==
    \A f \in live :
        (Happened("resolve", f, "None") /\ resolved[f] # Absent /\ dep[f] # "unset")
            => IF dep[f] # "None"
               THEN /\ \A i \in 1..Len(events) :
                          ~(events[i].e = "field_resolver" /\ events[i].f = f)
                    /\ Markers(resolved[f]) # <<>>
                    /\ \A i \in 1..Len(get_field_resolvers(f)) :
                          HasKey(DataOf(f), get_field_resolvers(f)[i].field)
                              => Leaves(GetItem(resolved[f], get_field_resolvers(f)[i].field))
                                   = Leaves(GetItem(DataOf(f), get_field_resolvers(f)[i].field))
               ELSE \A i \in 1..Len(get_field_resolvers(f)) :
                        IF HasKey(DataOf(f), get_field_resolvers(f)[i].field)
                        THEN /\ ResolverCalls(f, get_field_resolvers(f)[i].field) = 1
                             /\ (last.exc = NoExc
                                 /\ ~HoldsFixture(GetItem(DataOf(f), get_field_resolvers(f)[i].field)))
                                  => GetItem(resolved[f], get_field_resolvers(f)[i].field)
                                       = FieldResolver(get_field_resolvers(f)[i].fn, Env,
                                             GetItem(DataOf(f), get_field_resolvers(f)[i].field)).value
                        ELSE ResolverCalls(f, get_field_resolvers(f)[i].field) = 0

\* a fully resolved fixture whose resolver of "name" ran and whose resolver of
\* the absent "extra" did not
C12_Witness ==
    /\ Happened("field_resolver", "S", "name")
    /\ ~Happened("field_resolver", "S", "extra")
    /\ dep["S"] = "None"
    /\ GetItem(resolved["S"], "name") = Scalar(107)

\* the value has the shape of the input, but for the final values where the
\* function ended the traversal
RECURSIVE SameShape(_, _, _)
SameShape(fn, in, out) ==
    IF Terminates(fn, in) THEN out = Final(fn, in)
    ELSE IF in.t = "list"
    THEN /\ out.t = "list"
         /\ Len(out.elems) = Len(in.elems)
         /\ \A i \in 1..Len(in.elems) : SameShape(fn, in.elems[i], out.elems[i])
    ELSE IF in.t = "dict"
    THEN /\ out.t = "dict"
         /\ Len(out.entries) = Len(in.entries)
         /\ \A i \in 1..Len(in.entries) :
               /\ out.entries[i].k = in.entries[i].k
               /\ SameShape(fn, in.entries[i].val, out.entries[i].val)
    ELSE out = in

\* the nodes of the input in pre-order, nothing below a node where the
\* function ended the traversal
RECURSIVE Visited(_, _)
RECURSIVE VisitedOfAll(_, _)
Visited(fn, v) ==
    <<v>> \o (IF Terminates(fn, v) THEN <<>>
              ELSE IF v.t = "list" THEN VisitedOfAll(fn, v.elems)
              ELSE IF v.t = "dict"
              THEN VisitedOfAll(fn, [i \in 1..Len(v.entries) |-> v.entries[i].val])
              ELSE <<>>)
VisitedOfAll(fn, vs) ==
    IF vs = <<>> THEN <<>> ELSE Visited(fn, Head(vs)) \o VisitedOfAll(fn, Tail(vs))

\* C13: the walker's output has the shape of its input (list lengths and
\* order, dict keys) except where the function returned a TraversalTerminator:
\* there the final value stands as it is, and the function was called neither
\* inside the final value nor inside the subtree it replaces.
C13_TerminationSubstitution ==
    walked # Absent
        => /\ SameShape(visitor, tree, walked)
           /\ [i \in 1..Len(events) |-> events[i].r] = Visited(visitor, tree)

\* a dict whose list was replaced by the final value, a dict itself, with
\* the function called on the dict and on the list only
C13_Witness ==
    /\ visitor = "cut_lists"
    /\ tree = Dict(<<Entry("a", List(<<Scalar(0)>>))>>)
    /\ walked = Dict(<<Entry("a", Dict(<<Entry("cut", Scalar(0))>>))>>)
    /\ Len(events) = 2

\* the data of f holds a fixture whose resolve_self returns a fixture
ReferencesChained(f) ==
    \E g \in FixtureIds : References(f, g) /\ ClassOf(g).resolve_self = "fixture"

\* C14: a FixtureProgrammingError inside load_fixtures or unload_fixtures is
\* caught nowhere: the call ends by that exception, without a retcode, and
\* the database is as it was when the atomic block was entered.  A fixture
\* whose reference resolves to a fixture gets through no step of a batch.
C14_ProgrammingErrorAbortsBatch ==
    /\ (last.op \in {"load_fixtures", "unload_fixtures"}
        /\ last.exc = FixtureProgrammingError)
           => /\ last.retcode = -1
              /\ pc = "idle"
              /\ store = atomicStart
              /\ committed = atomicStart
    /\ (last.op \in {"load_fixtures:load", "unload_fixtures:resolve",
                     "unload_fixtures:unload", "load_fixtures", "unload_fixtures"}
        /\ last.f \in FixtureIds
        /\ ReferencesChained(last.f))
           => last.exc = FixtureProgrammingError

\* load_fixtures([X, P]) on an empty database: X's row was created, then P's
\* reference resolved to a fixture, and the row is gone
C14_Witness ==
    /\ last = Call("load_fixtures", "P", FixtureProgrammingError, -1)
    /\ batch = <<"X", "P">>
    /\ nextPk = 2
    /\ store = {}
    /\ committed = {}

\* C15: resolvable read on an instance whose resolution was never attempted
\* raises FixtureProgrammingError and returns no boolean; read after a
\* completed resolution it returns True exactly when the recorded dependency
\* is None.
C15_ResolvableNeedsAttempt ==
    last.op = "resolvable"
        => /\ runs[last.f] = 0
                => (last.exc = FixtureProgrammingError /\ events = <<>>)
           /\ (resolved[last.f] # Absent /\ dep[last.f] # "unset")
                => /\ last.exc = NoExc
                   /\ events = <<Event("resolvable", last.f,
                                       IF dep[last.f] = "None" THEN "True" ELSE "False")>>

\* resolvable read before any attempt
C15_Witness ==
    /\ last.op = "resolvable"
    /\ runs[last.f] = 0
    /\ last.exc = FixtureProgrammingError

\* C16: load_fixtures loads the fixtures in the order given.  At the first
\* UnresolvedFixtureError it returns 1 at once: the fixtures before the failing
\* one are loaded, the rows written since the call began are theirs, and the
\* loop takes no further turn.  When no load() fails it returns 0 with every
\* fixture of the batch loaded.
C16_LoadBatchInOrder ==
    /\ last.op = "load_fixtures:load"
         => /\ pc = "load"
            /\ last.f = batch[idx - 1]
            /\ \A j \in 1..(idx - 1) : RecordPresent(batch[j])
    /\ (last.op = "load_fixtures" /\ last.exc.type = "UnresolvedFixtureError")
         => /\ last.retcode = 1
            /\ pc = "idle"
            /\ idx <= Len(batch)
            /\ last.f = batch[idx]
            /\ \A j \in 1..(idx - 1) : RecordPresent(batch[j])
            /\ \A row \in store \ atomicStart :
                   \E j \in 1..(idx - 1) : row.by = batch[j]
    /\ (last.op = "load_fixtures" /\ last.exc = NoExc)
         => /\ last.retcode = 0
            /\ idx = Len(batch) + 1
            /\ \A j \in 1..Len(batch) : RecordPresent(batch[j])

\* load_fixtures([A, B]) failed on A, whose dependency B comes later in the
\* batch and was never loaded
C16_Witness ==
    /\ last = Call("load_fixtures", "A", UnresolvedFixtureError("B"), 1)
    /\ batch = <<"A", "B">>
    /\ idx = 1
    /\ ~RecordPresent("B")

\* C17: unload_fixtures applies unload() to every fixture of the batch in the
\* order given, unresolvable and absent ones included, and returns 0; it ends
\* otherwise only by an exception, which is never an UnresolvedFixtureError.
C17_UnloadBatchNeverAborts ==
    /\ last.op = "unload_fixtures:unload"
         => /\ pc = "unload"
            /\ last.f = batch[idx - 1]
            /\ \E i \in 1..Len(events) :
                   events[i].e = "exists" /\ events[i].f = last.f
    /\ last.op = "unload_fixtures"
         => /\ pc = "idle"
            /\ last.exc.type # "UnresolvedFixtureError"
            /\ IF last.exc = NoExc
               THEN last.retcode = 0 /\ idx = Len(batch) + 1
               ELSE last.retcode = -1 /\ store = atomicStart

\* unload_fixtures([N, B]) returned 0: N is unresolvable and has no row, and
\* B's row, there at the start, is deleted all the same
C17_Witness ==
    /\ last = Call("unload_fixtures", "None", NoExc, 0)
    /\ batch = <<"N", "B">>
    /\ dep["N"] = "D"
    /\ \E row \in atomicStart : row.by = "B"
    /\ store = {}

\* C18: whatever is called, the data an instance was given stays as declared,
\* nested lists and dicts included; what the field resolvers replace, they
\* replace in the resolved copy only.
C18_InputNeverMutated ==
    \A f \in live :
        /\ self_data[f] = DataOf(f)
        /\ \A i \in 1..Len(get_field_resolvers(f)) :
              Happened("field_resolver", f, get_field_resolvers(f)[i].field)
                  => GetItem(self_data[f], get_field_resolvers(f)[i].field)
                       = GetItem(DataOf(f), get_field_resolvers(f)[i].field)

\* S resolved: its resolver replaced "name" in the resolved data, and the
\* data S was given still holds the declared name and the fixtures
C18_Witness ==
    /\ Happened("field_resolver", "S", "name")
    /\ GetItem(resolved["S"], "name") = Scalar(107)
    /\ GetItem(self_data["S"], "name") = Scalar(7)
    /\ GetItem(self_data["S"], "dep") = Fixture("B")
    /\ GetItem(resolved["S"], "dep").t = "object"

\* the field resolvers of f have all been applied to the cached data
PostProcessed(f) ==
    \A i \in 1..Len(get_field_resolvers(f)) :
        (/\ HasKey(self_data[f], get_field_resolvers(f)[i].field)
         /\ ~HoldsFixture(GetItem(self_data[f], get_field_resolvers(f)[i].field)))
            => /\ Ok(FieldResolver(get_field_resolvers(f)[i].fn, Env,
                                   GetItem(self_data[f], get_field_resolvers(f)[i].field)))
               /\ GetItem(resolved[f], get_field_resolvers(f)[i].field)
                    = FieldResolver(get_field_resolvers(f)[i].fn, Env,
                                    GetItem(self_data[f], get_field_resolvers(f)[i].field)).value

\* C19: between calls, also after a resolution that raised, an instance has
\* either neither the cached resolved data nor the recorded dependency, or
\* both, and then of a completed resolution: the dependency is the one the
\* data shows, and with no dependency every field resolver has been applied.
C19_CacheConsistency ==
    \A f \in live :
        /\ resolved[f] = Absent <=> dep[f] = "unset"
        /\ (resolved[f] # Absent /\ dep[f] = "None") => PostProcessed(f)

\* a's data references b and nothing else, b's data references nothing, and
\* both resolve themselves as ModelFixture does
DependsOnlyOn(a, b) ==
    /\ a # b
    /\ References(a, b)
    /\ \A g \in FixtureIds \ {b} : ~References(a, g)
    /\ \A g \in FixtureIds : ~References(b, g)
    /\ ClassOf(a).resolve_self = "model"
    /\ ClassOf(b).resolve_self = "model"

\* the atomic block was entered with a and b never resolved and without a
\* row of either
FreshAndAbsent(a, b) ==
    /\ {a, b} \subseteq freshStart
    /\ \A row \in atomicStart : row.by \notin {a, b}

\* C20: for never-resolved fixtures a and b without rows, a referencing b:
\* load_fixtures([b, a]) returns 0 with both rows created, a's row holding
\* b's new row, a resolved once, when its own load() ran; load_fixtures([a, b])
\* returns 1 on a with b the missing dependency and creates no row.
C20_LazyResolutionOrder ==
    \A a, b \in live :
        (/\ last.op = "load_fixtures"
         /\ pc = "idle"
         /\ DependsOnlyOn(a, b)
         /\ FreshAndAbsent(a, b))
            => /\ batch = <<b, a>>
                    => /\ last = Call("load_fixtures", "None", NoExc, 0)
                       /\ runs[a] = 1
                       /\ \E ra, rb \in store \ atomicStart :
                              /\ ra.by = a
                              /\ rb.by = b
                              /\ \E i \in 1..Len(Leaves(ra.fields)) :
                                     Leaves(ra.fields)[i] = ModelObject(rb.pk)
               /\ batch = <<a, b>>
                    => /\ last = Call("load_fixtures", a, UnresolvedFixtureError(b), 1)
                       /\ store = atomicStart
                       /\ committed = atomicStart

\* load_fixtures([B, A]) returned 0 from fresh instances and an empty store
C20_Witness ==
    /\ last = Call("load_fixtures", "None", NoExc, 0)
    /\ batch = <<"B", "A">>
    /\ FreshAndAbsent("A", "B")
    /\ Cardinality(store) = 2

====
